---- MODULE Spec2Model ----
(***************************************************************************)
(* Model of the schema-driven conversion path of json-automator            *)
(* (src/main.py, lines 432-612): mode dispatch, schema pre-checks, alias   *)
(* maps, the per-row rule engine, the schema post-check and the response.  *)
(*                                                                         *)
(* Strings are sequences of one-character strings, so that strip, lower,   *)
(* split, startswith, str() and int() are computed and not assumed.        *)
(* Python / JSON values are records [t, s, n, d] with a tag t:             *)
(*   "none"  None / JSON null            "str"   s is the text             *)
(*   "int"   n is the number             "bool"  n is 1 (True) or 0 (False)*)
(*   "list"  s is the sequence of items                                    *)
(*   "obj"   an ordered mapping whose iteration order matters (a JSON      *)
(*           object of the schema, a sheet row): s is the sequence of      *)
(*           <<name, value>> members in document order                     *)
(*   "dict"  a mapping compared as a Python dict (the final config and its *)
(*           nested levels): d is a function from names to values          *)
(***************************************************************************)
EXTENDS Integers, Sequences, FiniteSets, TLC

(* ---------------------------------------------------------------------- *)
(* Values                                                                 *)
(* ---------------------------------------------------------------------- *)
EmptyMap == <<>>

None == [t |-> "none", s |-> <<>>, n |-> 0, d |-> EmptyMap]

Str(s) == [t |-> "str", s |-> s, n |-> 0, d |-> EmptyMap]

Num(n) == [t |-> "int", s |-> <<>>, n |-> n, d |-> EmptyMap]

Bool(b) == [t |-> "bool", s |-> <<>>, n |-> IF b THEN 1 ELSE 0, d |-> EmptyMap]

List(items) == [t |-> "list", s |-> items, n |-> 0, d |-> EmptyMap]

Dict(f) == [t |-> "dict", s |-> <<>>, n |-> 0, d |-> f]

(* An ordered mapping (JSON object, sheet row): members in document order,  *)
(* each a pair <<name, value>>; names are distinct.                         *)
Obj(members) == [t |-> "obj", s |-> members, n |-> 0, d |-> EmptyMap]

IsObj(v) == v.t = "obj"

Names(o) == {o.s[i][1] : i \in 1..Len(o.s)}

Has(o, name) == name \in Names(o)

(* dict.get(name, dflt) *)
Get(o, name, dflt) ==
    IF Has(o, name)
    THEN LET i == CHOOSE j \in 1..Len(o.s) : o.s[j][1] = name IN o.s[i][2]
    ELSE dflt

(* ---------------------------------------------------------------------- *)
(* Python string primitives                                               *)
(* ---------------------------------------------------------------------- *)
DigitChars == <<"0", "1", "2", "3", "4", "5", "6", "7", "8", "9">>

UpperChars == <<"A", "B", "C", "D", "E", "F", "G", "H", "I", "J", "K", "L", "M",
                "N", "O", "P", "Q", "R", "S", "T", "U", "V", "W", "X", "Y", "Z">>

LowerChars == <<"a", "b", "c", "d", "e", "f", "g", "h", "i", "j", "k", "l", "m",
                "n", "o", "p", "q", "r", "s", "t", "u", "v", "w", "x", "y", "z">>

IsSpace(c) == c = " "

IsDigit(c) == \E i \in DOMAIN DigitChars : DigitChars[i] = c

DigitVal(c) == (CHOOSE i \in DOMAIN DigitChars : DigitChars[i] = c) - 1

LowerChar(c) ==
    IF \E i \in DOMAIN UpperChars : UpperChars[i] = c
    THEN LowerChars[CHOOSE i \in DOMAIN UpperChars : UpperChars[i] = c]
    ELSE c

(* str.lower() *)
Lower(s) == [i \in DOMAIN s |-> LowerChar(s[i])]

RECURSIVE LStrip(_)
LStrip(s) == IF s # <<>> /\ IsSpace(Head(s)) THEN LStrip(Tail(s)) ELSE s

RECURSIVE RStrip(_)
RStrip(s) ==
    IF s # <<>> /\ IsSpace(s[Len(s)]) THEN RStrip(SubSeq(s, 1, Len(s) - 1)) ELSE s

(* str.strip() *)
Strip(s) == RStrip(LStrip(s))

(* str.startswith(p) *)
StartsWith(s, p) == Len(s) >= Len(p) /\ SubSeq(s, 1, Len(p)) = p

(* str.split("."): never empty, "a." gives <<"a", "">> *)
RECURSIVE SplitDot(_)
SplitDot(s) ==
    IF s = <<>> THEN << <<>> >>
    ELSE LET rest == SplitDot(Tail(s)) IN
         IF Head(s) = "." THEN << <<>> >> \o rest
         ELSE << <<Head(s)>> \o Head(rest) >> \o Tail(rest)

RECURSIVE NatToStr(_)
NatToStr(n) ==
    IF n < 10 THEN <<DigitChars[n + 1]>>
    ELSE NatToStr(n \div 10) \o <<DigitChars[(n % 10) + 1]>>

(* str(v) for the values a cell or a schema scalar can hold *)
PyStr(v) ==
    CASE v.t = "none" -> <<"N", "o", "n", "e">>
      [] v.t = "str" -> v.s
      [] v.t = "int" -> IF v.n < 0 THEN <<"-">> \o NatToStr(-v.n) ELSE NatToStr(v.n)
      [] v.t = "bool" -> IF v.n = 1 THEN <<"T", "r", "u", "e">>
                         ELSE <<"F", "a", "l", "s", "e">>
      [] OTHER -> <<"{", "}">>

RECURSIVE DigitsToNat(_)
DigitsToNat(s) ==
    IF s = <<>> THEN 0
    ELSE DigitsToNat(SubSeq(s, 1, Len(s) - 1)) * 10 + DigitVal(s[Len(s)])

AllDigits(s) == s # <<>> /\ \A i \in DOMAIN s : IsDigit(s[i])

(* int(v): ok is FALSE where Python raises (TypeError on None, ValueError   *)
(* on text that is not an optionally signed run of digits after strip).    *)
PyInt(v) ==
    CASE v.t = "int" -> [ok |-> TRUE, n |-> v.n]
      [] v.t = "bool" -> [ok |-> TRUE, n |-> v.n]
      [] v.t = "str" ->
            LET s == Strip(v.s)
                signed == s # <<>> /\ Head(s) \in {"+", "-"}
                body == IF signed THEN Tail(s) ELSE s
            IN IF AllDigits(body)
               THEN [ok |-> TRUE,
                     n |-> IF signed /\ Head(s) = "-" THEN -DigitsToNat(body)
                           ELSE DigitsToNat(body)]
               ELSE [ok |-> FALSE, n |-> 0]
      [] OTHER -> [ok |-> FALSE, n |-> 0]

(* bool(v) / "not v" *)
Truthy(v) ==
    CASE v.t = "none" -> FALSE
      [] v.t = "str" -> v.s # <<>>
      [] v.t = "int" -> v.n # 0
      [] v.t = "bool" -> v.n = 1
      [] v.t = "list" -> v.s # <<>>
      [] v.t = "obj" -> v.s # <<>>
      [] OTHER -> v.d # EmptyMap

(* "value is None or str(value).strip() == ''" *)
IsBlank(v) == v.t = "none" \/ Strip(PyStr(v)) = <<>>

(* ---------------------------------------------------------------------- *)
(* Python dict primitives                                                 *)
(* ---------------------------------------------------------------------- *)
(* d[k] = v on a dict held as a function *)
DictSet(f, k, v) == (k :> v) @@ f

(* d.get(k, dflt) on a dict held as a function *)
DictGet(f, k, dflt) == IF k \in DOMAIN f THEN f[k] ELSE dflt

(* o[name] = v on an ordered mapping: an existing member keeps its place *)
ObjSet(o, name, v) ==
    IF Has(o, name)
    THEN Obj([i \in DOMAIN o.s |-> IF o.s[i][1] = name THEN <<name, v>> ELSE o.s[i]])
    ELSE Obj(Append(o.s, <<name, v>>))

(* ---------------------------------------------------------------------- *)
(* Names of the sheet columns and of the schema's vocabulary              *)
(* ---------------------------------------------------------------------- *)
H_key == <<"k", "e", "y">>

H_value == <<"v", "a", "l", "u", "e">>

H_required == <<"r", "e", "q", "u", "i", "r", "e", "d">>

H_type == <<"t", "y", "p", "e">>

T_string == <<"s", "t", "r", "i", "n", "g">>

T_int == <<"i", "n", "t">>

T_bool == <<"b", "o", "o", "l">>

T_url == <<"u", "r", "l">>

W_yes == <<"y", "e", "s">>

W_no == <<"n", "o">>

W_true == <<"t", "r", "u", "e">>

W_false == <<"f", "a", "l", "s", "e">>

W_http == <<"h", "t", "t", "p", ":", "/", "/">>

W_https == <<"h", "t", "t", "p", "s", ":", "/", "/">>

(* ---------------------------------------------------------------------- *)
(* Diagnostics: the template of the message and the values formatted into *)
(* it (row number, key name, a second value for the config mode).         *)
(* ---------------------------------------------------------------------- *)
Msg(kind, row, key) == [kind |-> kind, row |-> row, key |-> key, arg |-> <<>>]

Msg2(kind, key, arg) == [kind |-> kind, row |-> 0, key |-> key, arg |-> arg]

(* result["messages"].append(...) for each message of new, in order.  src   *)
(* is not part of the text: it records which row of the workbook (counted  *)
(* across sheets, 0 for the post-check) the message was appended for.      *)
(* messages put in front of the list instead of appended *)
EmitInFront(msgs, new, src) == [i \in DOMAIN new |-> [src |-> src] @@ new[i]] \o msgs

Emit(msgs, new, src) == msgs \o [i \in DOMAIN new |-> [src |-> src] @@ new[i]]

(* ---------------------------------------------------------------------- *)
(* convert_type (lines 519-540): the value returned and the messages      *)
(* appended to result["messages"]                                         *)
(* ---------------------------------------------------------------------- *)
(* no coercion at all: the value as it came and no diagnostic *)
convert_type_passthrough(val, expected, row_idx, key) == [val |-> val, msgs |-> <<>>]

convert_type(val, expected, row_idx, key) ==
    LET t == Lower(IF expected = <<>> THEN T_string ELSE expected) IN
    CASE t = T_int ->
            IF PyInt(val).ok
            THEN [val |-> Num(PyInt(val).n), msgs |-> <<>>]
            ELSE [val |-> val, msgs |-> <<Msg("expects_int", row_idx, key)>>]
      [] t = T_bool ->
            LET s == Lower(Strip(PyStr(val))) IN
            IF s \in {W_true, <<"1">>, W_yes} THEN [val |-> Bool(TRUE), msgs |-> <<>>]
            ELSE IF s \in {W_false, <<"0">>, W_no} THEN [val |-> Bool(FALSE), msgs |-> <<>>]
            ELSE [val |-> val, msgs |-> <<Msg("expects_bool", row_idx, key)>>]
      [] t = T_url ->
            IF StartsWith(PyStr(val), W_http) \/ StartsWith(PyStr(val), W_https)
            THEN [val |-> val, msgs |-> <<>>]
            ELSE [val |-> val, msgs |-> <<Msg("expects_url", row_idx, key)>>]
      [] OTHER -> [val |-> val, msgs |-> <<>>]

(* ---------------------------------------------------------------------- *)
(* set_nested (lines 543-550) on the parts of the dotted key              *)
(* ---------------------------------------------------------------------- *)
(* first write wins: a final segment already present is left alone *)
RECURSIVE SetPartsKeepingFirst(_, _, _)
SetPartsKeepingFirst(dct, parts, val) ==
    IF Len(parts) = 1
    THEN IF parts[1] \in DOMAIN dct.d THEN dct ELSE Dict(DictSet(dct.d, parts[1], val))
    ELSE LET p == Head(parts)
             cur == IF p \notin DOMAIN dct.d \/ dct.d[p].t # "dict"
                    THEN Dict(EmptyMap) ELSE dct.d[p]
         IN Dict(DictSet(dct.d, p, SetPartsKeepingFirst(cur, Tail(parts), val)))

RECURSIVE SetParts(_, _, _)
SetParts(dct, parts, val) ==
    IF Len(parts) = 1 THEN Dict(DictSet(dct.d, parts[1], val))
    ELSE LET p == Head(parts)
             cur == IF p \notin DOMAIN dct.d \/ dct.d[p].t # "dict"
                    THEN Dict(EmptyMap) ELSE dct.d[p]
         IN Dict(DictSet(dct.d, p, SetParts(cur, Tail(parts), val)))

(* the dotted key used as one flat name *)
set_flat(dct, dotted, val) == Dict(DictSet(dct.d, dotted, val))

set_nested(dct, dotted, val) == SetParts(dct, SplitDot(dotted), val)

(* ---------------------------------------------------------------------- *)
(* The request and the state of one run of convert                        *)
(* ---------------------------------------------------------------------- *)
VARIABLES
    mode,          \* the mode parameter of the request
    schema_file,   \* the uploaded schema: [present, json_ok, doc]
    headers,       \* the header row shared by the sheets of the workbook
    pc,            \* position in convert
    schema,        \* the parsed schema document
    alias_map,     \* header alias -> canonical header
    key_rules,     \* schema["keys"]
    alias_to_key,  \* key alias -> canonical key
    allow_extra,   \* bool(schema.get("allow_extra_keys", False))
    sheets,        \* result["sheets"], the rows consumed so far, per sheet
    final_config,  \* the nested config under construction
    seen_keys,     \* canonical keys of the rows that were not skipped
    messages,      \* result["messages"]
    response       \* what the request returned

vars == <<mode, schema_file, headers, pc, schema, alias_map, key_rules, alias_to_key,
          allow_extra, sheets, final_config, seen_keys, messages, response>>

NoResponse == [kind |-> "none", status |-> 0, detail |-> "", data |-> None, messages |-> <<>>]

(* raise HTTPException(status_code=400, detail=...) *)
HttpError(detail) ==
    [kind |-> "http_error", status |-> 400, detail |-> detail, data |-> None, messages |-> <<>>]

(* JSONResponse(status_code=..., content={"data": ..., "messages": ...}) *)
JsonResponse(status, data, msgs) ==
    [kind |-> "json", status |-> status, detail |-> "", data |-> data, messages |-> msgs]

(* an exception no handler catches: the framework answers 500 *)
Unhandled(where) ==
    [kind |-> "unhandled", status |-> 500, detail |-> where, data |-> None, messages |-> <<>>]

(* ---------------------------------------------------------------------- *)
(* Header alias map (lines 484-489) and header normalisation (498-505)    *)
(* ---------------------------------------------------------------------- *)
RECURSIVE AliasesInto(_, _, _)
AliasesInto(map, aliases, canonical) ==
    IF aliases = <<>> THEN map
    ELSE AliasesInto(DictSet(map, PyStr(Head(aliases)), canonical), Tail(aliases), canonical)

RECURSIVE BuildAliasMap(_, _)
BuildAliasMap(map, columns) ==
    IF columns = <<>> THEN map
    ELSE LET canonical == Head(columns)[1]
             aliases == Head(columns)[2]
             withAliases == IF aliases.t = "list"
                            THEN AliasesInto(map, aliases.s, canonical) ELSE map
         IN BuildAliasMap(DictSet(withAliases, canonical, canonical), Tail(columns))

RECURSIVE NormalizeInto(_, _, _)
NormalizeInto(nr, members, amap) ==
    IF members = <<>> THEN nr
    ELSE LET k == Head(members)[1]
             v == Head(members)[2]
         IN NormalizeInto(ObjSet(nr, DictGet(amap, k, k), v), Tail(members), amap)

NormalizeRow(r, amap) == NormalizeInto(Obj(<<>>), r.s, amap)

(* ---------------------------------------------------------------------- *)
(* Key alias resolution (lines 509-514)                                   *)
(* ---------------------------------------------------------------------- *)
(* "rule.get('aliases', []) or []" as the items the for loop visits: a     *)
(* list gives its items, a text its characters, a falsy value nothing;     *)
(* ok is FALSE where the loop raises TypeError (a number, true).  An       *)
(* object-valued "aliases" is not among the modelled schemas.              *)
AliasItems(rule) ==
    LET a == Get(rule, "aliases", List(<<>>)) IN
    CASE ~Truthy(a) -> [ok |-> TRUE, items |-> <<>>]
      [] a.t = "list" -> [ok |-> TRUE, items |-> a.s]
      [] a.t = "str" -> [ok |-> TRUE, items |-> [i \in DOMAIN a.s |-> Str(<<a.s[i]>>)]]
      [] OTHER -> [ok |-> FALSE, items |-> <<>>]

RECURSIVE BuildAliasToKey(_, _)
BuildAliasToKey(map, rules) ==
    IF rules = <<>> THEN [ok |-> TRUE, map |-> map]
    ELSE LET k == Head(rules)[1]
             rule == Head(rules)[2]
         IN IF ~IsObj(rule) THEN BuildAliasToKey(map, Tail(rules))
            ELSE IF ~AliasItems(rule).ok THEN [ok |-> FALSE, map |-> map]
            ELSE BuildAliasToKey(AliasesInto(map, AliasItems(rule).items, k), Tail(rules))

(* ---------------------------------------------------------------------- *)
(* The row rule engine (lines 558-598), one row                           *)
(* ---------------------------------------------------------------------- *)
(* the test of the key without the trimming *)
KeyIsEmptyUntrimmed(row) == ~Truthy(Get(row, H_key, None))

(* line 562: the row is skipped as having no key *)
KeyIsEmpty(row) ==
    LET raw_key == Get(row, H_key, None) IN
    ~Truthy(raw_key) \/ Strip(PyStr(raw_key)) = <<>>

(* lines 566-567 *)
KeyName(row) == Strip(PyStr(Get(row, H_key, None)))

Resolve(key_name) == DictGet(alias_to_key, key_name, key_name)

CanonicalKey(row) == Resolve(KeyName(row))

(* line 568 *)
RuleOf(canonical_key) == Get(key_rules, canonical_key, Obj(<<>>))

(* the requirement taken from the schema rule alone *)
IsRequiredBySchemaOnly(row, rule) == Truthy(Get(rule, "required", Bool(FALSE)))

(* lines 571-573 *)
IsRequired(row, rule) ==
    LET req_excel == Lower(Strip(PyStr(Get(row, H_required, Str(<<>>))))) = W_yes
        req_schema == Truthy(Get(rule, "required", Bool(FALSE)))
    IN req_excel \/ req_schema

(* lines 576-577 *)
ValueAfterDefault(row, rule) ==
    LET value == Get(row, H_value, None) IN
    IF IsBlank(value) /\ Has(rule, "default") THEN Get(rule, "default", None) ELSE value

(* the required check made on the cell, before the default is substituted *)
RequiredMsgsBeforeDefault(row, rule, idx, canonical_key) ==
    IF IsRequired(row, rule) /\ IsBlank(Get(row, H_value, None))
    THEN <<Msg("missing_required", idx, canonical_key)>> ELSE <<>>

(* lines 580-581 *)
RequiredMsgs(row, rule, idx, canonical_key) ==
    IF IsRequired(row, rule) /\ IsBlank(ValueAfterDefault(row, rule))
    THEN <<Msg("missing_required", idx, canonical_key)>> ELSE <<>>

(* the row's own type preferred to the type of the schema rule *)
ExpectedTypeRowFirst(row, rule) ==
    Lower(Strip(PyStr(Get(row, H_type, Get(rule, "type", Str(T_string))))))

(* line 584 *)
ExpectedType(row, rule) ==
    Lower(Strip(PyStr(Get(rule, "type", Get(row, H_type, Str(T_string))))))

(* lines 588-589 *)
DuplicateMsgs(seen, idx, canonical_key) ==
    IF canonical_key \in seen THEN <<Msg("duplicate", idx, canonical_key)>> ELSE <<>>

(* the extra-key test with the flag ignored: an undeclared key is kept *)
IsExcludedNever(canonical_key) == ~Has(key_rules, canonical_key) /\ allow_extra

(* line 593 *)
IsExcluded(canonical_key) == ~Has(key_rules, canonical_key) /\ ~allow_extra

(* One iteration of the loop body: the config, the seen keys and the       *)
(* messages appended; crash is TRUE where rule.get raises AttributeError   *)
(* because the rule of the key is not a mapping (line 572).                *)
RowStep(cfg, seen, row, idx) ==
    IF KeyIsEmpty(row)
    THEN [crash |-> FALSE, config |-> cfg, seen |-> seen,
          msgs |-> <<Msg("empty_key", idx, <<>>)>>]
    ELSE LET canonical_key == CanonicalKey(row)
             rule == RuleOf(canonical_key)
         IN IF ~IsObj(rule)
            THEN [crash |-> TRUE, config |-> cfg, seen |-> seen, msgs |-> <<>>]
            ELSE LET conv == convert_type(ValueAfterDefault(row, rule),
                                          ExpectedType(row, rule), idx, canonical_key)
                     upto == RequiredMsgs(row, rule, idx, canonical_key) \o conv.msgs
                                \o DuplicateMsgs(seen, idx, canonical_key)
                 IN IF IsExcluded(canonical_key)
                    THEN [crash |-> FALSE, config |-> cfg,
                          seen |-> seen \cup {canonical_key},
                          msgs |-> Append(upto, Msg("extra_ignored", idx, canonical_key))]
                    ELSE [crash |-> FALSE,
                          config |-> set_nested(cfg, canonical_key, conv.val),
                          seen |-> seen \cup {canonical_key}, msgs |-> upto]

(* ---------------------------------------------------------------------- *)
(* The schema post-check (lines 601-603) over the rules in document order *)
(* ---------------------------------------------------------------------- *)
RECURSIVE MissingKeys(_, _, _)
MissingKeys(rules, seen, acc) ==
    IF rules = <<>> THEN [crash |-> FALSE, msgs |-> acc]
    ELSE LET skey == Head(rules)[1]
             rule == Head(rules)[2]
         IN IF ~IsObj(rule) THEN [crash |-> TRUE, msgs |-> acc]
            ELSE MissingKeys(Tail(rules), seen,
                    IF Truthy(Get(rule, "required", Bool(FALSE))) /\ skey \notin seen
                    THEN Append(acc, Msg("schema_required_missing", 0, skey))
                    ELSE acc)

(* ---------------------------------------------------------------------- *)
(* Inputs: key names, cells, rules, schema documents, header rows         *)
(* ---------------------------------------------------------------------- *)
MaxRows == 2

K_a == <<"a">>

K_b == <<"b">>

K_x == <<"x">>

K_ab == <<"a", ".", "b">>

SheetNames == <<"Sheet1", "Sheet2">>

(* what a cell of each kind of column can hold *)
KeyCells == {None, Str(K_a), Str(K_ab)}

AliasKeyCells == {Str(K_a), Str(K_x), Str(K_b)}

ValueCells == {None, Str(<<"7">>), Str(W_no)}

RequiredCells == {None, Str(<<"Y", "e", "s">>)}

TypeCells == {None, Str(T_int)}

(* cells of the sheets that exercise the type coercion: one key, values    *)
(* that conform to one type each or to none, type hints in mixed case      *)
K_port == <<"p", "o", "r", "t">>

V_8080 == <<"8", "0", "8", "0">>

V_abc == <<"a", "b", "c">>

V_Yes == <<"Y", "e", "s">>

V_url == W_https \o <<"h">>

TypedKeyCells == {Str(K_port)}

TypedValueCells == {Str(V_8080), Str(V_abc), Str(V_Yes), Str(V_url)}

TypedTypeCells == {Str(T_int), Str(<<" ", "B", "o", "o", "l">>)}

(* cells of the sheets that exercise the dotted keys *)
K_server == <<"s", "e", "r", "v", "e", "r">>

K_server_port == K_server \o <<".">> \o K_port

K_host == <<"h", "o", "s", "t">>

K_server_host == K_server \o <<".">> \o K_host

K_server_port_x == K_server_port \o <<".", "x">>

V_localhost == <<"l", "o", "c", "a", "l", "h", "o", "s", "t">>

NestedKeyCells == {Str(K_server), Str(K_server_port), Str(K_server_host), Str(K_server_port_x)}

NestedValueCells == {Str(V_8080), Str(V_localhost)}

(* cells of the sheets that exercise the required flag: one key, a value   *)
(* that is absent, blank or present, a flag that says yes or no            *)
K_timeout == <<"t", "i", "m", "e", "o", "u", "t">>

V_30 == <<"3", "0">>

RequiredKeyCells == {Str(K_timeout)}

BlankValueCells == {None, Str(<<" ">>), Str(V_30)}

YesNoCells == {Str(<<" ", "Y", "E", "S">>), Str(W_no)}

(* cells of the sheets that exercise the empty keys: a key that is absent, *)
(* empty, blank or present, in rows flagged as required                    *)
BlankKeyCells == {None, Str(<<>>), Str(<<" ", " ">>), Str(K_timeout)}

SomeValueCells == {None, Str(V_30)}

YesCells == {Str(W_yes)}

CellsOf(col) ==
    CASE col = "key" -> KeyCells
      [] col = "alias_key" -> AliasKeyCells
      [] col = "value" -> ValueCells
      [] col = "required" -> RequiredCells
      [] col = "type" -> TypeCells
      [] col = "typed_key" -> TypedKeyCells
      [] col = "typed_value" -> TypedValueCells
      [] col = "typed_type" -> TypedTypeCells
      [] col = "nested_key" -> NestedKeyCells
      [] col = "nested_value" -> NestedValueCells
      [] col = "required_key" -> RequiredKeyCells
      [] col = "blank_value" -> BlankValueCells
      [] col = "yes_no" -> YesNoCells
      [] col = "blank_key" -> BlankKeyCells
      [] col = "some_value" -> SomeValueCells
      [] col = "yes" -> YesCells

(* a header row: per column the header text and the kind of cell it holds *)
Col(name, col) == [name |-> name, col |-> col]

PlainHeaders == <<Col(H_key, "key"), Col(H_value, "value")>>

(* the rows a sheet with header row hs can hold (lines 442-444) *)
RECURSIVE RowMembers(_)
RowMembers(hs) ==
    IF hs = <<>> THEN {<<>>}
    ELSE {<< <<Head(hs).name, c>> >> \o rest : c \in CellsOf(Head(hs).col),
                                              rest \in RowMembers(Tail(hs))}

RowsOf(hs) == {Obj(m) : m \in RowMembers(hs)}

(* rules of a key *)
R_plain == Obj(<<>>)

R_required == Obj(<< <<"required", Bool(TRUE)>> >>)

R_int_default ==
    Obj(<< <<"required", Bool(TRUE)>>, <<"type", Str(T_int)>>, <<"default", Str(<<"7">>)>> >>)

R_empty_default == Obj(<< <<"required", Bool(TRUE)>>, <<"default", Str(<<>>)>> >>)

R_string == Obj(<< <<"type", Str(T_string)>> >>)

R_scalar == Num(5)

RulesA == {R_plain, R_required, R_int_default, R_empty_default, R_string, R_scalar}

RulesB == {R_required, R_scalar}

KeysObjects ==
    {Obj(<<>>)} \cup {Obj(<< <<K_a, ra>> >>) : ra \in RulesA}
        \cup {Obj(<< <<K_a, ra>>, <<K_b, rb>> >>) : ra \in RulesA, rb \in RulesB}

(* a schema document with the three members, allow_extra_keys absent *)
SchemaDoc(columns, keys) == Obj(<< <<"columns", columns>>, <<"keys", keys>> >>)

WithExtra(doc, flag) == Obj(Append(doc.s, <<"allow_extra_keys", flag>>))

GoodDocs ==
    LET base == {SchemaDoc(Obj(<<>>), k) : k \in KeysObjects} IN
    base \cup {WithExtra(d, Bool(TRUE)) : d \in base}

(* documents the pre-checks reject *)
BadDocs ==
    {List(<<>>),
     Obj(<< <<"keys", Obj(<<>>)>> >>),
     Obj(<< <<"columns", List(<<>>)>>, <<"keys", Obj(<<>>)>> >>),
     Obj(<< <<"columns", Obj(<<>>)>> >>),
     Obj(<< <<"columns", Obj(<<>>)>>, <<"keys", None>> >>)}

Upload(doc) == [present |-> TRUE, json_ok |-> TRUE, doc |-> doc]

NoUpload == [present |-> FALSE, json_ok |-> FALSE, doc |-> None]

NotJson == [present |-> TRUE, json_ok |-> FALSE, doc |-> None]

Modes == {"rows", "config", "config_schema", "yaml"}

(* ---------------------------------------------------------------------- *)
(* The state machine of convert                                           *)
(*                                                                         *)
(* The workbook is an input of the request; a row enters the model when   *)
(* the loop that consumes it reaches it (no step reads a row ahead of its *)
(* turn), so sheets is the part of result["sheets"] consumed so far.      *)
(* ---------------------------------------------------------------------- *)
InitWith(files, headerRows) ==
    /\ mode \in Modes
    /\ schema_file \in files
    /\ mode # "config_schema" => schema_file = NoUpload
    /\ headers \in headerRows
    /\ pc = "start"
    /\ schema = None
    /\ alias_map = EmptyMap
    /\ key_rules = Obj(<<>>)
    /\ alias_to_key = EmptyMap
    /\ allow_extra = FALSE
    /\ sheets = << <<>> >>
    /\ final_config = Dict(EmptyMap)
    /\ seen_keys = {}
    /\ messages = <<>>
    /\ response = NoResponse

Init == InitWith({NoUpload, NotJson} \cup {Upload(d) : d \in GoodDocs \cup BadDocs},
                 {PlainHeaders})

RECURSIVE TotalRows(_)
TotalRows(ss) == IF ss = <<>> THEN 0 ELSE Len(Head(ss)) + TotalRows(Tail(ss))

CurrentSheet == sheets[Len(sheets)]

(* enumerate(rows, start=2) *)
NextIdx == Len(CurrentSheet) + 2

AppendRow(r) == [sheets EXCEPT ![Len(sheets)] = Append(@, r)]

InRowLoop ==
    \/ pc = "start" /\ mode \in {"rows", "config"}
    \/ pc = "rows"

Finish(resp) == pc' = "done" /\ response' = resp

(* lines 436-447: the next sheet of the workbook begins *)
NextSheet ==
    /\ InRowLoop
    /\ CurrentSheet # <<>>
    /\ Len(sheets) < Len(SheetNames)
    /\ sheets' = Append(sheets, <<>>)
    /\ UNCHANGED <<mode, schema_file, headers, pc, schema, alias_map, key_rules,
                   alias_to_key, allow_extra, final_config, seen_keys, messages, response>>

(* lines 442-444, mode "rows": a row is read and kept verbatim *)
ReadRow ==
    /\ pc = "start" /\ mode = "rows"
    /\ TotalRows(sheets) < MaxRows
    /\ \E r \in RowsOf(headers) : sheets' = AppendRow(r)
    /\ UNCHANGED <<mode, schema_file, headers, pc, schema, alias_map, key_rules,
                   alias_to_key, allow_extra, final_config, seen_keys, messages, response>>

SheetsData == Obj([i \in DOMAIN sheets |-> <<SheetNames[i], List(sheets[i])>>])

(* lines 450-452 and 612 *)
ConvertRows ==
    /\ pc = "start" /\ mode = "rows"
    /\ Finish(JsonResponse(200, SheetsData, messages))
    /\ UNCHANGED <<mode, schema_file, headers, schema, alias_map, key_rules,
                   alias_to_key, allow_extra, sheets, final_config, seen_keys, messages>>

(* lines 456-461: the message of one row in mode "config" *)
ConfigMsg(r, sheet_name) ==
    IF Has(r, H_key) /\ Has(r, H_value)
    THEN Msg2("config_pair", PyStr(Get(r, H_key, None)), PyStr(Get(r, H_value, None)))
    ELSE Msg2("config_missing_column", <<sheet_name>>, <<>>)

ConfigRow ==
    /\ pc = "start" /\ mode = "config"
    /\ TotalRows(sheets) < MaxRows
    /\ \E r \in RowsOf(headers) :
          /\ sheets' = AppendRow(r)
          /\ messages' = Emit(messages, <<ConfigMsg(r, SheetNames[Len(sheets)])>>,
                               TotalRows(sheets) + 1)
    /\ UNCHANGED <<mode, schema_file, headers, pc, schema, alias_map, key_rules,
                   alias_to_key, allow_extra, final_config, seen_keys, response>>

(* lines 462 and 612 *)
ConvertConfig ==
    /\ pc = "start" /\ mode = "config"
    /\ Finish(JsonResponse(200, Dict(EmptyMap), messages))
    /\ UNCHANGED <<mode, schema_file, headers, schema, alias_map, key_rules,
                   alias_to_key, allow_extra, sheets, final_config, seen_keys, messages>>

(* lines 609-610 *)
InvalidMode ==
    /\ pc = "start" /\ mode \notin {"rows", "config", "config_schema"}
    /\ Finish(HttpError("invalid_mode"))
    /\ UNCHANGED <<mode, schema_file, headers, schema, alias_map, key_rules,
                   alias_to_key, allow_extra, sheets, final_config, seen_keys, messages>>

(* lines 465-473 *)
LoadSchema ==
    /\ pc = "start" /\ mode = "config_schema"
    /\ IF ~schema_file.present
       THEN Finish(HttpError("schema_file_required")) /\ schema' = schema
       ELSE IF ~schema_file.json_ok
       THEN Finish(HttpError("schema_not_valid_json")) /\ schema' = schema
       ELSE pc' = "check_schema" /\ schema' = schema_file.doc /\ response' = response
    /\ UNCHANGED <<mode, schema_file, headers, alias_map, key_rules,
                   alias_to_key, allow_extra, sheets, final_config, seen_keys, messages>>

(* the pre-checks without the check of "keys" *)
SchemaErrorKeysUnchecked(doc) ==
    IF ~IsObj(doc) THEN "schema_root_not_object"
    ELSE IF ~Has(doc, "columns") \/ ~IsObj(Get(doc, "columns", None))
    THEN "schema_columns_not_object"
    ELSE ""

(* lines 476-481 *)
SchemaError(doc) ==
    IF ~IsObj(doc) THEN "schema_root_not_object"
    ELSE IF ~Has(doc, "columns") \/ ~IsObj(Get(doc, "columns", None))
    THEN "schema_columns_not_object"
    ELSE IF ~Has(doc, "keys") \/ ~IsObj(Get(doc, "keys", None))
    THEN "schema_keys_not_object"
    ELSE ""

CheckSchema ==
    /\ pc = "check_schema"
    /\ IF SchemaError(schema) # ""
       THEN Finish(HttpError(SchemaError(schema)))
       ELSE pc' = "prepare" /\ response' = response
    /\ UNCHANGED <<mode, schema_file, headers, schema, alias_map, key_rules,
                   alias_to_key, allow_extra, sheets, final_config, seen_keys, messages>>

(* lines 483-489 and 509-516 *)
Prepare ==
    /\ pc = "prepare"
    /\ LET rules == Get(schema, "keys", Obj(<<>>))
           built == BuildAliasToKey(EmptyMap, rules.s)
       IN /\ alias_map' = BuildAliasMap(EmptyMap, Get(schema, "columns", None).s)
          /\ key_rules' = rules
          /\ alias_to_key' = built.map
          /\ allow_extra' = Truthy(Get(schema, "allow_extra_keys", Bool(FALSE)))
          /\ IF built.ok THEN pc' = "rows" /\ response' = response
             ELSE Finish(Unhandled("TypeError at line 513"))
    /\ UNCHANGED <<mode, schema_file, headers, schema, sheets, final_config,
                   seen_keys, messages>>

(* lines 501-505 and 558-598: the next row of the current sheet *)
ProcessRow ==
    /\ pc = "rows"
    /\ TotalRows(sheets) < MaxRows
    /\ \E r \in RowsOf(headers) :
          LET step == RowStep(final_config, seen_keys, NormalizeRow(r, alias_map), NextIdx)
          IN /\ sheets' = AppendRow(r)
             /\ final_config' = step.config
             /\ seen_keys' = step.seen
             /\ messages' = Emit(messages, step.msgs, TotalRows(sheets) + 1)
             /\ IF step.crash THEN Finish(Unhandled("AttributeError at line 572"))
                ELSE pc' = pc /\ response' = response
    /\ UNCHANGED <<mode, schema_file, headers, schema, alias_map, key_rules,
                   alias_to_key, allow_extra>>

(* lines 600-603, after the last row of the last sheet *)
PostCheck ==
    /\ pc = "rows"
    /\ LET check == MissingKeys(key_rules.s, seen_keys, <<>>)
       IN /\ messages' = Emit(messages, check.msgs, 0)
          /\ IF check.crash THEN Finish(Unhandled("AttributeError at line 602"))
             ELSE pc' = "return" /\ response' = response
    /\ UNCHANGED <<mode, schema_file, headers, schema, alias_map, key_rules,
                   alias_to_key, allow_extra, sheets, final_config, seen_keys>>

(* a result that also fails when diagnostics were collected *)
ResultFailingOnDiagnostics(cfg, msgs) ==
    IF DOMAIN cfg.d = {} \/ msgs # <<>> THEN JsonResponse(400, Dict(EmptyMap), msgs)
    ELSE JsonResponse(200, cfg, msgs)

(* lines 606-608 and 612 *)
ResultOf(cfg, msgs) ==
    IF DOMAIN cfg.d = {} THEN JsonResponse(400, Dict(EmptyMap), msgs)
    ELSE JsonResponse(200, cfg, msgs)

Return ==
    /\ pc = "return"
    /\ Finish(ResultOf(final_config, messages))
    /\ UNCHANGED <<mode, schema_file, headers, schema, alias_map, key_rules,
                   alias_to_key, allow_extra, sheets, final_config, seen_keys, messages>>

Next ==
    \/ NextSheet
    \/ ReadRow
    \/ ConvertRows
    \/ ConfigRow
    \/ ConvertConfig
    \/ InvalidMode
    \/ LoadSchema
    \/ CheckSchema
    \/ Prepare
    \/ ProcessRow
    \/ PostCheck
    \/ Return

Spec == Init /\ [][Next]_vars

(* ---------------------------------------------------------------------- *)
(* Vocabulary of the properties                                           *)
(* ---------------------------------------------------------------------- *)
RECURSIVE Flat(_)
Flat(ss) ==
    IF ss = <<>> THEN <<>>
    ELSE [i \in 1..Len(Head(ss)) |-> [raw |-> Head(ss)[i], idx |-> i + 1]] \o Flat(Tail(ss))

(* the rows consumed so far in processing order, as the row loop sees them: *)
(* position in Processed is the row's ordinal in the workbook               *)
Processed ==
    LET f == Flat(sheets) IN
    [i \in DOMAIN f |-> [row |-> NormalizeRow(f[i].raw, alias_map), idx |-> f[i].idx]]

Keyed(p) == ~KeyIsEmpty(p.row)

KeyOf(p) == CanonicalKey(p.row)

(* the value the row assigns: its value after default substitution, coerced *)
Converted(p) ==
    convert_type(ValueAfterDefault(p.row, RuleOf(KeyOf(p))),
                 ExpectedType(p.row, RuleOf(KeyOf(p))), p.idx, KeyOf(p)).val

(* walking a config along the segments of a dotted key, through mappings *)
RECURSIVE Walk(_, _)
Walk(v, parts) ==
    IF parts = <<>> THEN [found |-> TRUE, val |-> v]
    ELSE IF v.t = "dict" /\ Head(parts) \in DOMAIN v.d
    THEN Walk(v.d[Head(parts)], Tail(parts))
    ELSE [found |-> FALSE, val |-> None]

Lookup(cfg, dotted) == Walk(cfg, SplitDot(dotted))

Holds(cfg, dotted, val) == Lookup(cfg, dotted) = [found |-> TRUE, val |-> val]

IsPrefix(p, q) == Len(p) <= Len(q) /\ SubSeq(q, 1, Len(p)) = p

(* one dotted key lies on the path of the other *)
OnSamePath(k1, k2) ==
    IsPrefix(SplitDot(k1), SplitDot(k2)) \/ IsPrefix(SplitDot(k2), SplitDot(k1))

MsgsWhere(kind, key) ==
    {m \in DOMAIN messages : messages[m].kind = kind /\ messages[m].key = key}

(* the messages appended for the row with ordinal ord *)
MsgsOfRow(ord) == {m \in DOMAIN messages : messages[m].src = ord}

SchemaMode == mode = "config_schema"

(* the conversion went through the rows and the post-check and returned *)
SchemaRunReturned == SchemaMode /\ pc = "done" /\ response.kind = "json"

RowsWithKey(k) == {i \in DOMAIN Processed : Keyed(Processed[i]) /\ KeyOf(Processed[i]) = k}

ProcessedKeys == {KeyOf(Processed[i]) : i \in {j \in DOMAIN Processed : Keyed(Processed[j])}}

Last(S) == CHOOSE i \in S : \A j \in S : j <= i

ValuesDiffer(k) ==
    \E i, j \in RowsWithKey(k) :
        Get(Processed[i].row, H_value, None) # Get(Processed[j].row, H_value, None)

Assignable(k) == Has(key_rules, k) \/ allow_extra

OverwrittenLater(k) ==
    \E i \in DOMAIN Processed :
        /\ i > Last(RowsWithKey(k))
        /\ Keyed(Processed[i])
        /\ OnSamePath(KeyOf(Processed[i]), k)

UndeclaredRows ==
    {i \in DOMAIN Processed : Keyed(Processed[i]) /\ ~Has(key_rules, KeyOf(Processed[i]))}

NamingKey(ord) == {m \in MsgsOfRow(ord) : messages[m].key = KeyOf(Processed[ord])}

(* the config the rows 1..n produce when the rows without a key and the    *)
(* rows of undeclared keys are left out                                     *)
RECURSIVE DeclaredOnly(_)
DeclaredOnly(n) ==
    IF n = 0 THEN Dict(EmptyMap)
    ELSE IF Keyed(Processed[n]) /\ Has(key_rules, KeyOf(Processed[n]))
    THEN set_nested(DeclaredOnly(n - 1), KeyOf(Processed[n]), Converted(Processed[n]))
    ELSE DeclaredOnly(n - 1)

C2_ExtraKeyExcluded_AsStated ==
    SchemaRunReturned /\ ~allow_extra =>
        /\ final_config = DeclaredOnly(Len(Processed))
        /\ \A i \in UndeclaredRows : Cardinality(NamingKey(i)) = 1

(* C2 as amended: the row is never assigned into data (data is what the    *)
(* rows of declared keys alone produce) and gets exactly one "not defined  *)
(* in the schema" diagnostic, which is the last of the diagnostics the row *)
(* produced (it may also have produced a missing-required-value, a type or *)
(* a duplicate-key diagnostic naming the key).                             *)
C2_ExtraKeyExcluded ==
    SchemaRunReturned /\ ~allow_extra =>
        /\ final_config = DeclaredOnly(Len(Processed))
        /\ response.status = 200 => response.data = DeclaredOnly(Len(Processed))
        /\ \A i \in UndeclaredRows :
              /\ Cardinality({m \in NamingKey(i) : messages[m].kind = "extra_ignored"}) = 1
              /\ \A m \in MsgsOfRow(i) :
                    messages[m].kind = "extra_ignored" => \A n \in MsgsOfRow(i) : n <= m

(* an undeclared row next to a declared one: the data returned holds the   *)
(* declared key alone                                                      *)
C2_Witness ==
    /\ SchemaRunReturned /\ ~allow_extra /\ response.status = 200
    /\ \E i \in UndeclaredRows :
          /\ ~IsBlank(Get(Processed[i].row, H_value, None))
          /\ ~Lookup(response.data, KeyOf(Processed[i])).found
          /\ Cardinality(NamingKey(i)) = 1

(* ---------------------------------------------------------------------- *)
(* C3: required + default.  The claim as stated, on the row just          *)
(* processed: a rule with required true and a declared default and an     *)
(* empty value give the default at that key in the config and no          *)
(* missing-required-value diagnostic for that row.                        *)
(* ---------------------------------------------------------------------- *)
LastRow == Processed[Len(Processed)]

(* the row loop has processed the last row of Processed without raising *)
RowJustProcessed ==
    /\ SchemaMode /\ pc \in {"rows", "return", "done"} /\ response.kind # "unhandled"
    /\ Len(Processed) > 0

RequiredWithDefault(p) ==
    /\ Keyed(p)
    /\ IsObj(RuleOf(KeyOf(p)))
    /\ Get(RuleOf(KeyOf(p)), "required", None) = Bool(TRUE)
    /\ Has(RuleOf(KeyOf(p)), "default")
    /\ IsBlank(Get(p.row, H_value, None))

DefaultOf(p) == Get(RuleOf(KeyOf(p)), "default", None)

MissingOfRow(ord) == {m \in MsgsOfRow(ord) : messages[m].kind = "missing_required"}

C3_RequiredDefault_AsStated ==
    RowJustProcessed /\ RequiredWithDefault(LastRow) =>
        /\ Holds(final_config, KeyOf(LastRow), DefaultOf(LastRow))
        /\ MissingOfRow(Len(Processed)) = {}

(* C3 as amended: the row assigns the default coerced to the expected type *)
(* and there is no missing-required-value diagnostic when the default is   *)
(* itself not empty; an empty default gets the diagnostic.                 *)
C3_RequiredDefault ==
    RowJustProcessed /\ RequiredWithDefault(LastRow) =>
        /\ Holds(final_config, KeyOf(LastRow),
                 convert_type(DefaultOf(LastRow), ExpectedType(LastRow.row, RuleOf(KeyOf(LastRow))),
                              LastRow.idx, KeyOf(LastRow)).val)
        /\ IsBlank(DefaultOf(LastRow)) <=> MissingOfRow(Len(Processed)) # {}

C3_Witness ==
    /\ RowJustProcessed /\ RequiredWithDefault(LastRow) /\ pc = "done"
    /\ ~IsBlank(DefaultOf(LastRow))
    /\ Holds(response.data, KeyOf(LastRow), Num(7))
    /\ MissingOfRow(Len(Processed)) = {}

(* ---------------------------------------------------------------------- *)
(* C4: once the rows and the post-check are through, the request succeeds *)
(* with the final config and all diagnostics if and only if the final     *)
(* config is not empty, and otherwise returns the failure variant with    *)
(* data = {} and all diagnostics; diagnostics never decide the outcome.   *)
(* ---------------------------------------------------------------------- *)
C4_TerminalOutcome ==
    SchemaRunReturned =>
        /\ response.messages = messages
        /\ response.status \in {200, 400}
        /\ response.status = 200 <=> DOMAIN final_config.d # {}
        /\ response.status = 200 => response.data = final_config
        /\ response.status = 400 => response.data = Dict(EmptyMap)

C4_Witness ==
    /\ SchemaRunReturned /\ response.status = 200
    /\ Len(response.messages) >= 2
    /\ DOMAIN response.data.d # {}

(* ---------------------------------------------------------------------- *)
(* C5: with a schema that passes the three pre-checks, the conversion     *)
(* never ends in an unhandled error: it ends in the success or the        *)
(* failure result, which carries every diagnostic recorded.               *)
(* ---------------------------------------------------------------------- *)
PassesPreChecks ==
    /\ schema_file.present /\ schema_file.json_ok
    /\ schema_file.doc.t = "obj"
    /\ \E i \in DOMAIN schema_file.doc.s :
          schema_file.doc.s[i][1] = "columns" /\ schema_file.doc.s[i][2].t = "obj"
    /\ \E i \in DOMAIN schema_file.doc.s :
          schema_file.doc.s[i][1] = "keys" /\ schema_file.doc.s[i][2].t = "obj"

C5_NeverUnhandled_AsStated ==
    SchemaMode /\ PassesPreChecks /\ pc = "done" =>
        /\ response.kind = "json"
        /\ response.messages = messages

(* ---------------------------------------------------------------------- *)
(* C6: a missing schema, a schema that is not JSON, a root that is not a  *)
(* mapping, columns or keys missing or not a mapping, and an unknown mode *)
(* each fail the request at once with their own single message: no row is *)
(* processed, no data and no diagnostics are produced.                    *)
(* ---------------------------------------------------------------------- *)
MemberIsObject(doc, name) ==
    \E i \in DOMAIN doc.s : doc.s[i][1] = name /\ doc.s[i][2].t = "obj"

StructuralError ==
    IF mode \notin {"rows", "config", "config_schema"} THEN "invalid_mode"
    ELSE IF mode # "config_schema" THEN ""
    ELSE IF ~schema_file.present THEN "schema_file_required"
    ELSE IF ~schema_file.json_ok THEN "schema_not_valid_json"
    ELSE IF schema_file.doc.t # "obj" THEN "schema_root_not_object"
    ELSE IF ~MemberIsObject(schema_file.doc, "columns") THEN "schema_columns_not_object"
    ELSE IF ~MemberIsObject(schema_file.doc, "keys") THEN "schema_keys_not_object"
    ELSE ""

C6_StructuralFailure ==
    StructuralError # "" =>
        /\ pc \in {"start", "check_schema", "done"}
        /\ TotalRows(sheets) = 0
        /\ messages = <<>>
        /\ final_config = Dict(EmptyMap)
        /\ pc = "done" =>
              response = [kind |-> "http_error", status |-> 400, detail |-> StructuralError,
                          data |-> None, messages |-> <<>>]

C6_Witness ==
    /\ SchemaMode /\ pc = "done"
    /\ MemberIsObject(schema_file.doc, "columns")
    /\ response.kind = "http_error" /\ response.detail = "schema_keys_not_object"

(* ---------------------------------------------------------------------- *)
(* C7: the messages list only grows at its end; the diagnostics of an     *)
(* earlier-processed row precede those of every later-processed row, and  *)
(* the "schema required key missing" diagnostics, in the order of the     *)
(* schema's keys, come after every row diagnostic; the list returned is   *)
(* that list.                                                             *)
(* ---------------------------------------------------------------------- *)
KeyPosition(k) == CHOOSE i \in DOMAIN key_rules.s : key_rules.s[i][1] = k

MessagesOrdered ==
    \A i, j \in DOMAIN messages :
        i < j =>
            /\ messages[j].src # 0 =>
                  messages[i].src # 0 /\ messages[i].src <= messages[j].src
            /\ messages[i].src = 0 /\ messages[j].src = 0 =>
                  KeyPosition(messages[i].key) < KeyPosition(messages[j].key)

PostCheckMessagesOnly ==
    \A i \in DOMAIN messages :
        messages[i].src = 0 <=> messages[i].kind = "schema_required_missing"

C7_DiagnosticsOrder ==
    /\ [](SchemaMode => MessagesOrdered /\ PostCheckMessagesOnly)
    /\ [](SchemaRunReturned => response.messages = messages)
    /\ [][IsPrefix(messages, messages')]_vars

(* two sheets whose row 2 both produced a diagnostic, then two post-check  *)
(* diagnostics                                                             *)
C7_Witness ==
    /\ SchemaRunReturned
    /\ \E i, j, k, l \in DOMAIN response.messages :
          /\ i < j /\ j < k /\ k < l
          /\ response.messages[i].src = 1 /\ response.messages[j].src = 2
          /\ response.messages[i].row = response.messages[j].row
          /\ response.messages[k].kind = "schema_required_missing"
          /\ response.messages[l].kind = "schema_required_missing"

(* ---------------------------------------------------------------------- *)
(* C8: the post-check.  The claim as stated: once the rows are through,   *)
(* exactly one "schema required key missing" diagnostic for each declared *)
(* key with required true that no processed row resolved to, none for a   *)
(* key that was seen, the final config left as the rows made it, and the  *)
(* request not failed by the post-check.                                  *)
(* ---------------------------------------------------------------------- *)
PostCheckRan ==
    /\ SchemaMode
    /\ \/ pc = "return"
       \/ pc = "done" /\ response.kind = "json"
       \/ pc = "done" /\ response = Unhandled("AttributeError at line 602")

RequiredKeys ==
    {k \in Names(key_rules) : Get(Get(key_rules, k, None), "required", None) = Bool(TRUE)}

(* the config the rows 1..n produce by their assignments alone *)
RECURSIVE AssignedByRows(_)
AssignedByRows(n) ==
    IF n = 0 THEN Dict(EmptyMap)
    ELSE IF Keyed(Processed[n]) /\ Assignable(KeyOf(Processed[n]))
    THEN set_nested(AssignedByRows(n - 1), KeyOf(Processed[n]), Converted(Processed[n]))
    ELSE AssignedByRows(n - 1)

C8_PostCheck_AsStated ==
    PostCheckRan =>
        /\ response.kind # "unhandled"
        /\ final_config = AssignedByRows(Len(Processed))
        /\ \A k \in RequiredKeys :
              Cardinality(MsgsWhere("schema_required_missing", k))
                  = IF k \in ProcessedKeys THEN 0 ELSE 1

(* ---------------------------------------------------------------------- *)
(* Alias resolution: the same machine started on schemas that declare     *)
(* header aliases and key aliases, and on sheets whose key column is      *)
(* headed "key" or "k" and holds the keys a, x and b.                     *)
(* ---------------------------------------------------------------------- *)
H_k == <<"k">>

AliasList(names) == List([i \in DOMAIN names |-> Str(names[i])])

R_alias_x == Obj(<< <<"aliases", AliasList(<<K_x>>)>> >>)

R_alias_x_typed ==
    Obj(<< <<"aliases", AliasList(<<K_x>>)>>, <<"required", Bool(TRUE)>>,
           <<"type", Str(T_int)>> >>)

R_alias_a == Obj(<< <<"aliases", AliasList(<<K_a>>)>>, <<"required", Bool(TRUE)>> >>)

AliasKeysObjects ==
    {Obj(<< <<K_a, ra>> >>) : ra \in {R_alias_x, R_alias_x_typed}}
        \cup {Obj(<< <<K_a, ra>>, <<K_b, rb>> >>) :
                 ra \in {R_alias_x, R_alias_x_typed}, rb \in {R_alias_a, R_alias_x, R_required}}

ColumnsObjects ==
    {Obj(<<>>),
     Obj(<< <<H_key, AliasList(<<H_k>>)>> >>),
     Obj(<< <<H_key, AliasList(<<H_k>>)>>, <<H_value, AliasList(<<H_key>>)>> >>)}

AliasDocs == {SchemaDoc(c, k) : c \in ColumnsObjects, k \in AliasKeysObjects}

AliasHeaderRows ==
    {<<Col(H_key, "alias_key"), Col(H_value, "value")>>,
     <<Col(H_k, "alias_key"), Col(H_value, "value")>>}

InitAlias == InitWith({NoUpload} \cup {Upload(d) : d \in AliasDocs}, AliasHeaderRows)

SpecAlias == InitAlias /\ [][Next]_vars

(* the names the schema declares *)
CanonicalHeaders == Names(Get(schema, "columns", Obj(<<>>)))

CanonicalKeys == Names(key_rules)

RECURSIVE Texts(_)
Texts(items) == IF items = <<>> THEN {} ELSE {PyStr(Head(items))} \cup Texts(Tail(items))

HeaderAliasesOf(c) ==
    LET a == Get(Get(schema, "columns", Obj(<<>>)), c, None) IN
    IF a.t = "list" THEN Texts(a.s) ELSE {}

KeyAliasesOf(k) ==
    LET a == Get(Get(key_rules, k, None), "aliases", None) IN
    IF a.t = "list" THEN Texts(a.s) ELSE {}

ProbeNames == {K_a, K_b, K_x, K_ab, H_key, H_value, H_k}

ResolveHeader(h) == DictGet(alias_map, h, h)

Prepared == SchemaMode /\ pc = "rows"

(* ---------------------------------------------------------------------- *)
(* C9: the claim as stated: every canonical header name of columns and    *)
(* every canonical key name of keys resolves to itself whatever aliases   *)
(* the other names declare, and a name that is neither canonical nor a    *)
(* declared alias resolves to itself.                                     *)
(* ---------------------------------------------------------------------- *)
C9_CanonicalResolvesToItself_AsStated ==
    Prepared =>
        /\ \A c \in CanonicalHeaders : ResolveHeader(c) = c
        /\ \A k \in CanonicalKeys : Resolve(k) = k
        /\ \A u \in ProbeNames :
              /\ u \notin CanonicalHeaders \cup UNION {HeaderAliasesOf(c) : c \in CanonicalHeaders}
                    => ResolveHeader(u) = u
              /\ u \notin CanonicalKeys \cup UNION {KeyAliasesOf(k) : k \in CanonicalKeys}
                    => Resolve(u) = u

(* ---------------------------------------------------------------------- *)
(* C10: the claim as stated: when A is declared in keys[K].aliases (and   *)
(* in no other alias list), a row with raw key A has the same effect as   *)
(* the row with raw key K and the same value: same config, same seen      *)
(* keys, same diagnostics.                                                *)
(* ---------------------------------------------------------------------- *)
RowWithKey(name, value) == Obj(<< <<H_key, Str(name)>>, <<H_value, value>> >>)

AliasOfOnly(A, K) ==
    /\ A \in KeyAliasesOf(K)
    /\ \A k \in CanonicalKeys \ {K} : A \notin KeyAliasesOf(k)
    /\ A # <<>> /\ Strip(A) = A

C10_AliasEquivalence_AsStated ==
    Prepared =>
        \A K \in CanonicalKeys : \A A \in KeyAliasesOf(K) : \A v \in ValueCells :
            AliasOfOnly(A, K) =>
                RowStep(final_config, seen_keys, RowWithKey(A, v), NextIdx)
                    = RowStep(final_config, seen_keys, RowWithKey(K, v), NextIdx)

(* ---------------------------------------------------------------------- *)
(* Type coercion: the same machine started on schemas that give the key   *)
(* "port" each of the types (or none, or no rule at all) and on sheets    *)
(* with and without a "type" column.                                      *)
(* ---------------------------------------------------------------------- *)
T_colour == <<"c", "o", "l", "o", "u", "r">>

R_type(name) == Obj(<< <<"type", Str(name)>> >>)

TypedRules ==
    {R_plain, R_type(T_int), R_type(T_bool), R_type(T_url), R_type(T_string), R_type(T_colour)}

TypedKeysObjects == {Obj(<<>>)} \cup {Obj(<< <<K_port, r>> >>) : r \in TypedRules}

TypedDocs ==
    {SchemaDoc(Obj(<<>>), k) : k \in TypedKeysObjects}
        \cup {WithExtra(SchemaDoc(Obj(<<>>), Obj(<<>>)), Bool(TRUE))}

TypedHeaderRows ==
    {<<Col(H_key, "typed_key"), Col(H_value, "typed_value")>>,
     <<Col(H_key, "typed_key"), Col(H_value, "typed_value"), Col(H_type, "typed_type")>>}

InitTypes == InitWith({NoUpload} \cup {Upload(d) : d \in TypedDocs}, TypedHeaderRows)

SpecTypes == InitTypes /\ [][Next]_vars

CheckedTypes == {T_int, T_bool, T_url}

(* the type the row was coerced with and the value handed to the coercion *)
TypeOf(p) == ExpectedType(p.row, RuleOf(KeyOf(p)))

Original(p) == ValueAfterDefault(p.row, RuleOf(KeyOf(p)))

(* what conforming to a type means, and the value a conforming value gives *)
Conforms(v, t) ==
    CASE t = T_int -> PyInt(v).ok
      [] t = T_bool -> Lower(Strip(PyStr(v))) \in {W_true, <<"1">>, W_yes, W_false, <<"0">>, W_no}
      [] t = T_url -> StartsWith(PyStr(v), W_http) \/ StartsWith(PyStr(v), W_https)
      [] OTHER -> TRUE

ValueAs(v, t) ==
    CASE t = T_int -> Num(PyInt(v).n)
      [] t = T_bool -> Bool(Lower(Strip(PyStr(v))) \in {W_true, <<"1">>, W_yes})
      [] OTHER -> v

TypeMsgKind(t) ==
    CASE t = T_int -> "expects_int" [] t = T_bool -> "expects_bool" [] OTHER -> "expects_url"

TypeMsgsOfRow(ord) ==
    {m \in MsgsOfRow(ord) : messages[m].kind \in {"expects_int", "expects_bool", "expects_url"}}

(* the last row had a value that does not conform to its checked type *)
Mismatch(p) == Keyed(p) /\ TypeOf(p) \in CheckedTypes /\ ~Conforms(Original(p), TypeOf(p))

OneTypeMsg(p, ord) ==
    /\ Cardinality(TypeMsgsOfRow(ord)) = 1
    /\ \A m \in TypeMsgsOfRow(ord) :
          /\ messages[m].key = KeyOf(p)
          /\ messages[m].kind = TypeMsgKind(TypeOf(p))

(* what the claim says of the rows whose value conforms or whose type is   *)
(* not a checked one: the converted (or unchanged) value, no diagnostic    *)
ConformingRowEffect(p, ord) ==
    Keyed(p) /\ ~Mismatch(p) =>
        /\ TypeMsgsOfRow(ord) = {}
        /\ Assignable(KeyOf(p)) =>
              Holds(final_config, KeyOf(p), ValueAs(Original(p), TypeOf(p)))

(* ---------------------------------------------------------------------- *)
(* C11: the claim as stated, on the row just processed: a value that does *)
(* not conform to its int, bool or url type gets exactly one type         *)
(* diagnostic naming the key and the row's key is still assigned the       *)
(* original value in the final config; a conforming value is assigned     *)
(* converted with no diagnostic; type string or an unknown type leaves    *)
(* the value unchanged with no diagnostic.                                *)
(* ---------------------------------------------------------------------- *)
C11_CoercionKeepsRow_AsStated ==
    RowJustProcessed =>
        /\ Mismatch(LastRow) =>
              /\ OneTypeMsg(LastRow, Len(Processed))
              /\ Holds(final_config, KeyOf(LastRow), Original(LastRow))
        /\ ConformingRowEffect(LastRow, Len(Processed))

(* C11 as amended: the row of a value that does not conform is assigned    *)
(* the original value when its key is declared in keys or extras are      *)
(* allowed; the row of an undeclared key is left out by the extra-key rule *)
(* whatever its value, and still gets its type diagnostic.                 *)
C11_CoercionKeepsRow ==
    RowJustProcessed =>
        /\ Mismatch(LastRow) =>
              /\ OneTypeMsg(LastRow, Len(Processed))
              /\ Assignable(KeyOf(LastRow)) =>
                    Holds(final_config, KeyOf(LastRow), Original(LastRow))
              /\ ~Assignable(KeyOf(LastRow)) =>
                    final_config = AssignedByRows(Len(Processed) - 1)
        /\ ConformingRowEffect(LastRow, Len(Processed))

(* rule type int, value "abc": data.port is "abc" and the run succeeds     *)
(* with one type diagnostic for the row                                    *)
C11_Witness ==
    /\ RowJustProcessed /\ SchemaRunReturned /\ response.status = 200
    /\ Get(RuleOf(K_port), "type", None) = Str(T_int)
    /\ Get(LastRow.row, H_value, None) = Str(V_abc)
    /\ Holds(response.data, K_port, Str(V_abc))
    /\ Cardinality(TypeMsgsOfRow(Len(Processed))) = 1

(* ---------------------------------------------------------------------- *)
(* Nested keys: the same machine started on schemas for the keys server,  *)
(* server.port (type int), server.host and server.port.x, and on sheets   *)
(* whose key column holds these four dotted keys.                         *)
(* ---------------------------------------------------------------------- *)
NestedKeysObjects ==
    {Obj(<< <<K_server_port, R_type(T_int)>> >>),
     Obj(<< <<K_server_port, R_type(T_int)>>, <<K_server_host, R_plain>>,
            <<K_server, R_plain>>, <<K_server_port_x, R_plain>> >>)}

NestedDocs ==
    LET base == {SchemaDoc(Obj(<<>>), k) : k \in NestedKeysObjects} IN
    base \cup {WithExtra(d, Bool(TRUE)) : d \in base}

NestedHeaderRows == {<<Col(H_key, "nested_key"), Col(H_value, "nested_value")>>}

InitNested == InitWith({NoUpload} \cup {Upload(d) : d \in NestedDocs}, NestedHeaderRows)

SpecNested == InitNested /\ [][Next]_vars

(* the paths of all entries of a config, at every depth *)
RECURSIVE PathsOf(_)
PathsOf(v) ==
    IF v.t # "dict" THEN {}
    ELSE UNION {{<<n>>} \cup {<<n>> \o q : q \in PathsOf(v.d[n])} : n \in DOMAIN v.d}

(* q lies on the path: it leads to the assigned entry or lies below it *)
OnPath(q, parts) == IsPrefix(q, parts) \/ IsPrefix(parts, q)

(* this step of the row loop processed one more row *)
RowTaken == SchemaMode /\ pc = "rows" /\ TotalRows(sheets') = TotalRows(sheets) + 1

(* the diagnostics the row rule engine has for a row that is assigned: a   *)
(* missing required value, a type mismatch, a duplicate key                *)
RowMsgCount(p, seen) ==
    (IF IsRequired(p.row, RuleOf(KeyOf(p))) /\ IsBlank(Original(p)) THEN 1 ELSE 0)
        + (IF Mismatch(p) THEN 1 ELSE 0)
        + (IF KeyOf(p) \in seen THEN 1 ELSE 0)

(* the row that step took, as the row loop sees it *)
TakenRow ==
    LET sheet == sheets'[Len(sheets')] IN
    [row |-> NormalizeRow(sheet[Len(sheet)], alias_map), idx |-> Len(sheet) + 1]

(* the effect of the assignment of one row on the config and the messages *)
NestedEffect(p) ==
    LET parts == SplitDot(KeyOf(p)) IN
    /\ Walk(final_config', parts) = [found |-> TRUE, val |-> Converted(p)]
    /\ \A q \in PathsOf(final_config) \cup PathsOf(final_config') :
          ~OnPath(q, parts) => Walk(final_config', q) = Walk(final_config, q)
    /\ Len(messages') = Len(messages) + RowMsgCount(p, seen_keys)

NestedStep ==
    RowTaken => LET p == TakenRow IN Keyed(p) /\ Assignable(KeyOf(p)) => NestedEffect(p)

PortAndHost ==
    {[key |-> Str(K_server_port), value |-> Str(V_8080)],
     [key |-> Str(K_server_host), value |-> Str(V_localhost)]}

PortAndHostRows ==
    /\ Len(Processed) = 2
    /\ {[key |-> Get(Processed[i].row, H_key, None),
         value |-> Get(Processed[i].row, H_value, None)] : i \in {1, 2}} = PortAndHost

PortAndHostData ==
    Dict(K_server :> Dict((K_port :> Num(8080)) @@ (K_host :> Str(V_localhost))))

(* the two rows in either order give {server: {port: 8080, host: localhost}} *)
NestedExample ==
    SchemaRunReturned /\ PortAndHostRows /\ Assignable(K_server_host) =>
        response.status = 200 /\ response.data = PortAndHostData

(* ---------------------------------------------------------------------- *)
(* C12: after a row is assigned, walking the config along the segments of *)
(* its dotted key reaches the value through mappings only; a segment that *)
(* was absent or held a non-mapping is replaced by a mapping with no      *)
(* diagnostic; every entry that does not lie on the path is unchanged;    *)
(* the rows server.port = 8080 (int) and server.host = localhost give     *)
(* data = {server: {port: 8080, host: localhost}} in either order.        *)
(* ---------------------------------------------------------------------- *)
C12_NestedAssignment == [][NestedStep /\ NestedExample']_vars

(* host first, then port: the mapping made for server.host is kept when    *)
(* server.port is assigned into it                                         *)
C12_Witness ==
    /\ SchemaRunReturned /\ PortAndHostRows
    /\ Get(Processed[1].row, H_key, None) = Str(K_server_host)
    /\ response.data = PortAndHostData
    /\ messages = <<>>

(* ---------------------------------------------------------------------- *)
(* Required values and empty keys: the same machine started on schemas    *)
(* for the key "timeout" (no rule, an empty rule, required with type int, *)
(* required with a default) and for a required key named "", and on       *)
(* sheets with the columns key, value and required.                       *)
(* ---------------------------------------------------------------------- *)
R_timeout == Obj(<< <<"type", Str(T_int)>>, <<"required", Bool(TRUE)>> >>)

RequiredKeysObjects ==
    {Obj(<<>>),
     Obj(<< <<K_timeout, R_plain>> >>),
     Obj(<< <<K_timeout, R_timeout>> >>),
     Obj(<< <<K_timeout, R_int_default>> >>),
     Obj(<< <<K_timeout, R_plain>>, <<<<>>, R_required>> >>)}

RequiredDocs ==
    {SchemaDoc(Obj(<<>>), k) : k \in RequiredKeysObjects}
        \cup {WithExtra(SchemaDoc(Obj(<<>>), Obj(<<>>)), Bool(TRUE))}

RequiredHeaderRows ==
    {<<Col(H_key, "required_key"), Col(H_value, "blank_value"), Col(H_required, "yes_no")>>,
     <<Col(H_key, "blank_key"), Col(H_value, "some_value"), Col(H_required, "yes")>>}

InitRequired == InitWith({NoUpload} \cup {Upload(d) : d \in RequiredDocs}, RequiredHeaderRows)

SpecRequired == InitRequired /\ [][Next]_vars

(* the messages a step appended *)
NewMsgs == SubSeq(messages', Len(messages) + 1, Len(messages'))

NewOfKind(kind) == {m \in DOMAIN NewMsgs : NewMsgs[m].kind = kind}

(* required as the claim defines it: the row's field says yes, or the rule *)
(* has required true                                                       *)
RequiredByRow(p) ==
    Has(p.row, H_required) /\ Lower(Strip(PyStr(Get(p.row, H_required, None)))) = W_yes

RequiredByRule(p) == Get(RuleOf(KeyOf(p)), "required", None) = Bool(TRUE)

StillEmpty(p) == IsBlank(Original(p))

MissingValueEffect(p) ==
    /\ NewOfKind("missing_required") # {} <=> (RequiredByRow(p) \/ RequiredByRule(p)) /\ StillEmpty(p)
    /\ Cardinality(NewOfKind("missing_required")) <= 1
    /\ \A m \in NewOfKind("missing_required") : NewMsgs[m].key = KeyOf(p)
    /\ NewOfKind("missing_required") # {} =>
          /\ pc' = "rows"
          /\ Assignable(KeyOf(p)) => Holds(final_config', KeyOf(p), Original(p))

MissingValueStep == RowTaken => LET p == TakenRow IN Keyed(p) => MissingValueEffect(p)

(* ---------------------------------------------------------------------- *)
(* C13: a row is required iff its required field trimmed and lowercased   *)
(* is "yes" or its rule has required true; it gets a missing-required-    *)
(* value diagnostic naming its canonical key iff it is required and its   *)
(* value is still empty after default substitution; the row goes on and   *)
(* its key is assigned the empty value when the key is declared or extras *)
(* are allowed.                                                           *)
(* ---------------------------------------------------------------------- *)
C13_MissingRequiredValue == [][MissingValueStep]_vars

(* the schema of the example: timeout is int and required, the value is    *)
(* blank; data holds the blank value and the diagnostic is returned        *)
C13_Witness ==
    /\ SchemaRunReturned /\ response.status = 200
    /\ RuleOf(K_timeout) = R_timeout
    /\ Holds(response.data, K_timeout, Str(<<" ">>))
    /\ MsgsWhere("missing_required", K_timeout) # {}

(* ---------------------------------------------------------------------- *)
(* Empty keys, on the sheets of SpecRequired whose key column holds an    *)
(* absent, an empty and a blank key.                                      *)
(* ---------------------------------------------------------------------- *)
(* the key of the row is absent, empty or whitespace-only *)
KeyAbsentOrBlank(p) ==
    \/ ~Has(p.row, H_key)
    \/ Get(p.row, H_key, None) = None
    \/ Get(p.row, H_key, None).t = "str" /\ Strip(Get(p.row, H_key, None).s) = <<>>

EmptyKeyStep ==
    RowTaken /\ KeyAbsentOrBlank(TakenRow) =>
        /\ Len(NewMsgs) = 1
        /\ NewMsgs[1].kind = "empty_key"
        /\ final_config' = final_config
        /\ seen_keys' = seen_keys
        /\ pc' = "rows"

(* the step from the row loop to the result is the post-check *)
PostCheckTaken == SchemaMode /\ pc = "rows" /\ pc' # "rows" /\ sheets' = sheets

(* every required key of the schema that no row has put into the seen keys *)
(* is reported missing by the post-check                                   *)
UnseenReported ==
    PostCheckTaken =>
        \A k \in RequiredKeys :
            k \notin seen_keys =>
                Cardinality({m \in NewOfKind("schema_required_missing") : NewMsgs[m].key = k}) = 1

(* ---------------------------------------------------------------------- *)
(* C15: a row whose key is absent, empty or whitespace-only appends       *)
(* exactly one empty-key diagnostic and leaves the final config and the   *)
(* seen keys unchanged; it gets no required, type, duplicate or extra-key *)
(* diagnostic, and it cannot satisfy a schema-required key in the         *)
(* post-check.                                                            *)
(* ---------------------------------------------------------------------- *)
C15_EmptyKeySkipped == [][EmptyKeyStep /\ UnseenReported]_vars

(* the schema requires the key "", the only row has a blank key and is     *)
(* flagged required with no value: one empty-key diagnostic, then the      *)
(* post-check reports "" missing, and the request fails with no data       *)
C15_Witness ==
    /\ SchemaRunReturned /\ response.status = 400
    /\ <<>> \in RequiredKeys
    /\ TotalRows(sheets) = 1
    /\ sheets[1][1] = Obj(<< <<H_key, Str(<<" ", " ">>)>>, <<H_value, None>>,
                             <<H_required, Str(W_yes)>> >>)
    /\ Len(messages) = 2
    /\ messages[1].kind = "empty_key"
    /\ messages[2].kind = "schema_required_missing" /\ messages[2].key = <<>>

(* ---------------------------------------------------------------------- *)
(* Type precedence, on the schemas and sheets of SpecTypes.               *)
(* ---------------------------------------------------------------------- *)
(* the type as the claim orders the sources: the rule's type when the rule *)
(* declares one, else the row's type field when the row has one, else      *)
(* "string"                                                                *)
TypeByPrecedence(p) ==
    LET rule == RuleOf(KeyOf(p))
        named == IF Has(rule, "type") THEN Get(rule, "type", None)
                 ELSE IF Has(p.row, H_type) THEN Get(p.row, H_type, None)
                 ELSE Str(T_string)
    IN Lower(Strip(PyStr(named)))

NewTypeMsgs == NewOfKind("expects_int") \cup NewOfKind("expects_bool") \cup NewOfKind("expects_url")

(* the row was coerced with type t: its diagnostics and the value assigned *)
CoercedWith(p, t) ==
    LET v == Original(p)
        bad == t \in CheckedTypes /\ ~Conforms(v, t)
    IN /\ bad => Cardinality(NewTypeMsgs) = 1 /\ NewOfKind(TypeMsgKind(t)) # {}
       /\ ~bad => NewTypeMsgs = {}
       /\ Assignable(KeyOf(p)) =>
             Holds(final_config', KeyOf(p), IF bad THEN v ELSE ValueAs(v, t))

(* a row that says int under a rule that says string *)
IntUnderString(p) ==
    /\ Get(RuleOf(KeyOf(p)), "type", None) = Str(T_string)
    /\ Get(p.row, H_type, None) = Str(T_int)

TypePrecedenceStep ==
    RowTaken => LET p == TakenRow IN
        Keyed(p) =>
            /\ CoercedWith(p, TypeByPrecedence(p))
            /\ IntUnderString(p) =>
                  /\ NewTypeMsgs = {}
                  /\ Holds(final_config', KeyOf(p), Get(p.row, H_value, None))

(* ---------------------------------------------------------------------- *)
(* C14: the type used for coercion is the schema rule's type when the     *)
(* rule declares one, otherwise the row's own type field when the row has *)
(* one, otherwise "string"; a row with type int under a rule with type    *)
(* string is passed through with no conversion and no diagnostic.         *)
(* ---------------------------------------------------------------------- *)
C14_TypePrecedence == [][TypePrecedenceStep]_vars

(* rule type string, row type int, value "8080": data.port is the text     *)
(* "8080" and there is no diagnostic                                       *)
C14_Witness ==
    /\ SchemaRunReturned /\ response.status = 200
    /\ Get(RuleOf(K_port), "type", None) = Str(T_string)
    /\ TotalRows(sheets) = 1
    /\ Get(sheets[1][1], H_type, None) = Str(T_int)
    /\ Get(sheets[1][1], H_value, None) = Str(V_8080)
    /\ response.data = Dict(K_port :> Str(V_8080))
    /\ response.messages = <<>>

====
